---- MODULE Spec2Model ----
(***************************************************************************)
(* A model of danpy's grid-layout solver (danpy/grid_layout.py), image      *)
(* tiler (danpy/image.py, danpy/image_tile.py), Option helpers              *)
(* (danpy/option.py), performance timer (danpy/logging.py) and absolute     *)
(* label locations (danpy/image.py).                                        *)
(*                                                                         *)
(* SpecGrid applies the pure functions grid_layout_2d / grid_layout_3d to   *)
(* every count of a bounded range.  SpecTile runs image_tile statement by   *)
(* statement, entered directly on every ragged grid of a bounded family or  *)
(* through image_tile_auto on a flat list of items, with sources that fail  *)
(* to load among them.  SpecOption applies to_opt, unwrap, or_default and   *)
(* or_get_default to every Option-like value of a bounded family.           *)
(* SpecTimer drives one PerfTimer through every sequence of calls.          *)
(* SpecLoc applies to_canonical_absloc and label_image's anchor lookup to    *)
(* every location string of a bounded family.                               *)
(***************************************************************************)
EXTENDS Integers, Sequences, FiniteSets, TLC

VARIABLES
    fn,            \* grid layout: the function applied last ("none" before any)
    count,         \* grid layout: its argument
    result,        \* grid layout: the tuple it returned
    pc,            \* image tiler: position in image_tile / image_tile_auto
    caller,        \* image tiler: the entry point called ("none" when idle)
    paths,         \* image_tile_auto: the flat list of sources
    layout_arg,    \* image_tile_auto: the layout argument (None or <<rows, cols>>)
    layout,        \* image_tile_auto: layout after `layout or grid_layout_2d(...)`
    in_paths,      \* image_tile: the ragged grid of sources
    resolution,    \* image_tile: the resolution argument (None or <<W, H>>)
    images,        \* image_tile: the loaded images, same shape as in_paths
    nrows,         \* image_tile: len(in_paths)
    ncols,         \* image_tile: length of the longest row
    widths,        \* image_tile: per-column maximum width
    heights,       \* image_tile: per-row maximum height
    width,         \* image_tile: sum(widths)
    height,        \* image_tile: sum(heights)
    combined_img,  \* image_tile: the canvas
    row,           \* image_tile: paste loop, current row (0-based)
    col,           \* image_tile: paste loop, next column of the row (0-based)
    exc,           \* image tiler: the exception being raised ("" when none)
    o_fn,          \* option: the function called last ("none" before any)
    o_arg,         \* option: its first argument
    o_default,     \* option: the default (or what get_default returns)
    o_result,      \* option: what the call returned or raised
    o_again,       \* option: the function applied to its own result
    o_calls,       \* option: times get_default was called by the last call
    timer,         \* perf timer: the PerfTimer object (start, events)
    now,           \* perf timer: the clock, in microseconds
    t_op,          \* perf timer: the method called last ("none" before tick())
    t_arg,         \* perf timer: its events argument
    t_info,        \* perf timer: the PerfInfo the last tock returned
    t_by_add,      \* perf timer: events given to add_event / add_events so far
    t_by_tock,     \* perf timer: events given to tock so far
    l_fn,          \* locations: the function called last ("none" before any)
    l_arg,         \* locations: its loc argument
    l_result,      \* locations: what to_canonical_absloc returned or raised
    l_again,       \* locations: to_canonical_absloc applied to its own result
    l_anchor       \* locations: label_image's anchor, or the exception raised

gridVars == <<fn, count, result>>
autoVars == <<paths, layout_arg, layout>>
callVars == <<caller, in_paths, resolution>>
loadVars == <<images, nrows, ncols>>
sizeVars == <<widths, heights, width, height>>
tileVars == <<pc, caller, in_paths, resolution, images, nrows, ncols, widths,
              heights, width, height, combined_img, row, col, exc>>
optVars == <<o_fn, o_arg, o_default, o_result, o_again, o_calls>>
timerVars == <<timer, now, t_op, t_arg, t_info, t_by_add, t_by_tock>>
locVars == <<l_fn, l_arg, l_result, l_again, l_anchor>>
vars == <<fn, count, result, pc, caller, paths, layout_arg, layout, in_paths,
          resolution, images, nrows, ncols, widths, heights, width, height,
          combined_img, row, col, exc, o_fn, o_arg, o_default, o_result,
          o_again, o_calls, timer, now, t_op, t_arg, t_info, t_by_add,
          t_by_tock, l_fn, l_arg, l_result, l_again, l_anchor>>

\* Python's None, for the optional tuples resolution and layout.
None == <<>>

----------------------------------------------------------------------------
(* Bounds of the model.                                                    *)

MaxCount == 130   \* grid layout: counts 0..MaxCount
MaxRows == 2      \* image_tile: rows of the grid
MaxCells == 3     \* image_tile: images in the grid, over all rows
MaxRes == 1       \* image_tile: resolutions <<1..MaxRes, 1..MaxRes>>
MaxItems == 4     \* image_tile_auto: items in the flat list
MaxLayout == 2    \* image_tile_auto: explicit layouts <<0..MaxLayout, 0..MaxLayout>>

\* Widths and heights of the input images, in pixels.
Dims == {1, 2}

----------------------------------------------------------------------------
(* Arithmetic helpers.                                                     *)

Max(a, b) == IF a >= b THEN a ELSE b

RECURSIVE SumSeq(_)
SumSeq(s) == IF Len(s) = 0 THEN 0 ELSE Head(s) + SumSeq(Tail(s))

\* s[:n] of Python for 0 <= n
Prefix(s, n) == SubSeq(s, 1, IF n <= Len(s) THEN n ELSE Len(s))

----------------------------------------------------------------------------
(* danpy/grid_layout.py                                                     *)

\* The largest k >= 0 with k * k <= n.
ISqrt(n) == CHOOSE k \in 0..n : k * k <= n /\ (k + 1) * (k + 1) > n

\* The largest k >= 0 with k * k * k <= n.
ICbrt(n) == CHOOSE k \in 0..n : k * k * k <= n /\ (k + 1) * (k + 1) * (k + 1) > n

\* int(count ** (1.0 / 2.0)).  The exponent 0.5 is exact and the double power
\* of a perfect square below 2^52 is the exact root, so the truncation is the
\* integer square root.
FloatSqrtFloor(n) == ISqrt(n)

\* int(count ** (1.0 / 3.0)).  The double 1.0 / 3.0 is 6004799503160661 / 2^54,
\* which is 1/3 - 1/(3 * 2^54), so for a perfect cube k^3 the exact power is
\* k * (1 - ln(k) / 2^54) < k.  It rounds back to the double k only while
\* k * ln(k) * 2^-54 stays under half the gap between k and the double below
\* it, which holds for k = 1, 2, 3 and for no k >= 4:
\*    64 ** (1.0 / 3.0) = 3.9999999999999996, 125 ** (1.0 / 3.0) = 4.999999999999999.
\* Off the perfect cubes the power is further than that from an integer and the
\* truncation is the integer cube root.
FloatCbrtFloor(n) ==
    LET k == ICbrt(n)
    IN  IF k >= 4 /\ k * k * k = n THEN k - 1 ELSE k

\* root = 1; for i in range(start, stop): if count % i == 0: root = i
RECURSIVE DivisorLoop(_, _, _, _)
DivisorLoop(n, i, stop, root) ==
    IF i >= stop THEN root
    ELSE DivisorLoop(n, i + 1, stop, IF n % i = 0 THEN i ELSE root)

\* A slip in the update: the first divisor found is kept, not the last.
grid_layout_2d_first(n) ==
    LET D    == {d \in 2..FloatSqrtFloor(n) : n % d = 0}
        root == IF D = {} THEN 1 ELSE CHOOSE d \in D : \A e \in D : d <= e
    IN  <<root, n \div root>>

\* A slip in the loop bound: range(2, int(sqrt) + 2).
grid_layout_2d_overrun(n) ==
    LET root == DivisorLoop(n, 2, FloatSqrtFloor(n) + 2, 1)
    IN  <<root, n \div root>>

grid_layout_2d(n) ==
    LET root == DivisorLoop(n, 2, FloatSqrtFloor(n) + 1, 1)
    IN  <<root, n \div root>>

\* A slip in the remainder: the 2D split of count instead of count // root.
grid_layout_3d_whole(n) ==
    LET root == DivisorLoop(n, 2, FloatCbrtFloor(n) + 1, 1)
        yx   == grid_layout_2d(n)
    IN  <<root, yx[1], yx[2]>>

grid_layout_3d(n) ==
    LET root == DivisorLoop(n, 2, FloatCbrtFloor(n) + 1, 1)
        yx   == grid_layout_2d(n \div root)
    IN  <<root, yx[1], yx[2]>>

----------------------------------------------------------------------------
(* danpy/image.py: images, sources and the three PIL operations used.       *)

\* A pixel of the loaded image id, and a pixel of a plain colour.
PixelOf(id, px, py) == <<"image", id, px, py>>

Fill(colour) == <<colour, 0, 0, 0>>

\* A loaded image: its pixel at (px, py) is PixelOf(id, px, py).
LoadedImage(id, w, h) == [kind |-> "image", id |-> id, width |-> w, height |-> h]

\* A path (str or Path) to a file.  The file is an image (it decodes to it),
\* Unreadable (missing, or not an image: it cannot be opened) or a
\* TruncatedFile (its header reads, its pixel data does not decode).
PathTo(file) == [kind |-> "path", file |-> file]

Unreadable == [kind |-> "unreadable"]

TruncatedFile(id, w, h) == [kind |-> "truncated", id |-> id, width |-> w, height |-> h]

\* A value that is neither a path nor an image (an int, say).
OtherValue == [kind |-> "other"]

\* The k-th source of a call: odd k are paths, even k are loaded images.
Source(k, w, h) ==
    IF k % 2 = 1 THEN PathTo(LoadedImage(k, w, h)) ELSE LoadedImage(k, w, h)

\* The outcome of a call that raises the exception e.
Raises(e) == [kind |-> "raise", exc |-> e]

\* Image.open(path): lazy, it reads the header only.  A file that cannot be
\* opened or identified raises (FileNotFoundError and UnidentifiedImageError
\* are both OSError); a truncated file opens and fails when it is decoded.
ImageOpen(path) ==
    IF path.file.kind = "unreadable" THEN Raises("OSError") ELSE path.file

\* A slip in the second test: everything that is not an image is opened.
to_image_open_rest(image) ==
    IF image.kind = "image" THEN image
    ELSE IF image.kind = "path" THEN ImageOpen(image)
    ELSE Raises("OSError")

to_image(image) ==
    IF image.kind = "path" THEN ImageOpen(image)
    ELSE IF image.kind = "image" THEN image
    ELSE Raises("TypeError")

\* Image.load(), which paste runs on its source: a truncated file raises
\* OSError("image file is truncated").
Decodes(img) == img.kind # "truncated"

\* The default of the background argument.
background == "white"

\* The value of combined_img before Image.new has run.
NoImage == [size |-> <<>>, px |-> <<>>]

\* Image.new("RGB", (w, h), colour)
NewImage(w, h, colour) ==
    [size |-> <<w, h>>, px |-> [p \in (0..(w - 1)) \X (0..(h - 1)) |-> Fill(colour)]]

\* canvas.paste(img, (x, y)): the pixels of img replace those of the box
\* [x, x + img.width) x [y, y + img.height), clipped to the canvas.
PasteAt(canvas, img, x, y) ==
    [canvas EXCEPT !.px =
        [p \in DOMAIN canvas.px |->
            IF /\ x <= p[1] /\ p[1] < x + img.width
               /\ y <= p[2] /\ p[2] < y + img.height
            THEN PixelOf(img.id, p[1] - x, p[2] - y)
            ELSE canvas.px[p]]]

\* canvas.resize(size, Resampling.LANCZOS): a copy when the size is unchanged,
\* otherwise a new image of the requested size holding resampled pixels.
ResizeTo(canvas, size) ==
    IF canvas.size = size THEN canvas
    ELSE NewImage(size[1], size[2], "resampled")

----------------------------------------------------------------------------
(* danpy/option.py                                                          *)
(*                                                                         *)
(* An Option-like value is None, a raw value, or a Some holding any         *)
(* Option-like value.  A Some carries the identity of its object (oid), so  *)
(* that `is` and `==` differ: the Somes of an argument are numbered from 1  *)
(* outwards, and a Some the library constructs has oid 0.                   *)

MaxVal == 1     \* raw values are the integers 0..MaxVal
MaxDepth == 2   \* Somes are nested at most this deep

OptNone == [tag |-> "None"]

Raw(v) == [tag |-> "raw", v |-> v]

Some(val, oid) == [tag |-> "Some", val |-> val, oid |-> oid]

\* An exception leaving a function of the module.
OptRaises(e) == [tag |-> "raise", exc |-> e]

\* Nothing was applied.
NotApplied == [tag |-> "n/a"]

RECURSIVE OptionsTo(_)
OptionsTo(depth) ==
    LET base == {OptNone} \cup {Raw(v) : v \in 0..MaxVal}
    IN  IF depth = 0 THEN base
        ELSE base \cup {Some(x, depth) : x \in OptionsTo(depth - 1)}

Option == OptionsTo(MaxDepth)

\* to_opt wrapping whatever is not None, a Some included.
to_opt_nesting(val) ==
    IF val.tag = "None" THEN OptNone ELSE Some(val, 0)

\* match val: case Some(): return val; case None: return None;
\* case _: return Some(val)
to_opt(val) ==
    IF val.tag = "Some" THEN val
    ELSE IF val.tag = "None" THEN OptNone
    ELSE Some(val, 0)

\* unwrap returning the Some itself.
unwrap_keep(some) ==
    IF some.tag = "None" THEN OptRaises("TypeError") ELSE some

\* match some: case Some(t): return t; case None: raise TypeError();
\* case _: return some
unwrap(some) ==
    IF some.tag = "Some" THEN some.val
    ELSE IF some.tag = "None" THEN OptRaises("TypeError")
    ELSE some

\* The `x or default` idiom: a falsy raw value gives the default as well.
or_default_falsy(opt, default) ==
    IF opt.tag = "None" \/ (opt.tag = "raw" /\ opt.v = 0) THEN default
    ELSE IF opt.tag = "Some" THEN opt.val
    ELSE opt

\* try: return unwrap(opt); except TypeError: return default
or_default(opt, default) ==
    LET r == unwrap(opt)
    IN  IF r.tag = "raise" /\ r.exc = "TypeError" THEN default ELSE r

\* match opt: case Some(t): return t; case None: return get_default();
\* case _: return opt.  get_default is `lambda: d`; calls counts its calls.
or_get_default(opt, d) ==
    IF opt.tag = "Some" THEN [ret |-> opt.val, calls |-> 0]
    ELSE IF opt.tag = "None" THEN [ret |-> d, calls |-> 1]
    ELSE [ret |-> opt, calls |-> 0]

\* Python's ==.  The dataclass Some compares its val fields and is unequal to
\* anything that is not a Some; an expression that raised has no value.
RECURSIVE PyEq(_, _)
PyEq(a, b) ==
    IF a.tag = "raise" \/ b.tag = "raise" THEN FALSE
    ELSE IF a.tag # b.tag THEN FALSE
    ELSE IF a.tag = "Some" THEN PyEq(a.val, b.val)
    ELSE a = b

----------------------------------------------------------------------------
(* danpy/logging.py, PerfTimer                                              *)

MaxEvents == 4   \* calls are made while the counter stays within MaxEvents
MaxAdd == 2      \* events arguments 0..MaxAdd
MaxClock == 2    \* the clock runs from 0 to MaxClock microseconds

PerfTimer(start, events) == [start |-> start, events |-> events]

PerfInfo(events, micros) == [events |-> events, micros |-> micros]

\* No object yet.
NoTimer == PerfTimer(0, 0)
NoInfo == PerfInfo(0, 0)

\* self.events += events; return self
add_events(self, events) == PerfTimer(self.start, self.events + events)

\* return self.add_events(1)
add_event(self) == add_events(self, 1)

\* int(delta.seconds * 1e6 + delta.microseconds) for delta = now - start of
\* less than a day
elapsed(self, clock) == clock - self.start

\* tock building the PerfInfo from a sum it does not store.
tock_forgets(self, events, clock) ==
    [self |-> self,
     info |-> PerfInfo(self.events + events, elapsed(self, clock))]

\* self.add_events(events); delta = self.elapsed;
\* return PerfInfo(self.events, int(...))
tock(self, events, clock) ==
    LET added == add_events(self, events)
    IN  [self |-> added,
         info |-> PerfInfo(added.events, elapsed(added, clock))]

\* def tick(): return PerfTimer(datetime.datetime.now(), 0)
tick(clock) == PerfTimer(clock, 0)

----------------------------------------------------------------------------
(* danpy/image.py, absolute locations (lines 52-100, 160-191)               *)
(*                                                                         *)
(* A string is a sequence of tokens: a word, written in lower case or with  *)
(* some upper-case letter, or one of the separators " " and "-".            *)
(* Concatenating two strings concatenates their tokens.                     *)

MaxTokens == 3   \* input strings of at most this many tokens

Words == {"top", "left", "center", "right", "bottom", "middle"}

Token(ch, up) == [ch |-> ch, up |-> up]

Tokens ==
    {Token(w, up) : w \in Words, up \in BOOLEAN}
        \cup {Token(" ", FALSE), Token("-", FALSE)}

RECURSIVE StringsTo(_)
StringsTo(n) ==
    IF n = 0 THEN {<<>>}
    ELSE StringsTo(n - 1) \cup
         {Append(s, t) : s \in {u \in StringsTo(n - 1) : Len(u) = n - 1},
                         t \in Tokens}

\* The lower-case string literal of one word, and of two words and a space.
Word(w) == <<Token(w, FALSE)>>
TwoWords(v, h) == Word(v) \o <<Token(" ", FALSE)>> \o Word(h)

\* The nine two-word locations, lines 53-61.
CanonicalLocs ==
    {TwoWords(v, h) : v \in {"top", "center", "bottom"},
                      h \in {"left", "center", "right"}}

\* get_args(AbsoluteLocT), lines 52-68.  Line 64 has no comma after "left",
\* so Python joins it with the "center" of line 65 into one literal.
AbsoluteLocT ==
    CanonicalLocs \cup
        {Word("top"), Word("left") \o Word("center"), Word("right"),
         Word("bottom")}

\* str.lower()
lower(s) == [i \in 1..Len(s) |-> Token(s[i].ch, FALSE)]

\* str.replace("-", " ")
replace_dash(s) ==
    [i \in 1..Len(s) |-> IF s[i].ch = "-" THEN Token(" ", s[i].up) ELSE s[i]]

\* The aliases dict, lines 86-92.
aliases ==
    (Word("top") :> TwoWords("top", "center"))
        @@ (Word("left") :> TwoWords("center", "left"))
        @@ (Word("center") :> TwoWords("center", "center"))
        @@ (Word("right") :> TwoWords("center", "right"))
        @@ (Word("bottom") :> TwoWords("bottom", "center"))

\* What a call gives: a returned string, or an exception.
LocReturns(s) == [exc |-> "", val |-> s]
LocRaises(e) == [exc |-> e, val |-> <<>>]
NotCalled == [exc |-> "n/a", val |-> <<>>]

\* to_canonical_absloc, lines 84-100.
to_canonical_absloc(loc) ==
    LET norm == replace_dash(lower(loc))
    IN  IF norm \in DOMAIN aliases THEN LocReturns(aliases[norm])
        ELSE IF norm \notin AbsoluteLocT THEN LocRaises("ValueError")
        ELSE LocReturns(norm)

\* The anchor table of label_image, lines 163-173; text_xy (lines 181-191)
\* has the same keys.
anchor ==
    (TwoWords("top", "left") :> "lt")
        @@ (TwoWords("top", "center") :> "mt")
        @@ (TwoWords("top", "right") :> "rt")
        @@ (TwoWords("center", "left") :> "lm")
        @@ (TwoWords("center", "center") :> "mm")
        @@ (TwoWords("center", "right") :> "rm")
        @@ (TwoWords("bottom", "left") :> "lb")
        @@ (TwoWords("bottom", "center") :> "mb")
        @@ (TwoWords("bottom", "right") :> "rb")

\* loc = to_canonical_absloc(loc); anchor = {...}[loc], lines 160-173: the
\* anchor, or the exception that leaves label_image.
anchor_of(loc) ==
    LET r == to_canonical_absloc(loc)
    IN  IF r.exc # "" THEN r.exc
        ELSE IF r.val \in DOMAIN anchor THEN anchor[r.val]
        ELSE "KeyError"

----------------------------------------------------------------------------
(* The state before any call.                                              *)

Init ==
    /\ fn = "none"
    /\ count = 0
    /\ result = <<>>
    /\ pc = "idle"
    /\ caller = "none"
    /\ paths = <<>>
    /\ layout_arg = None
    /\ layout = None
    /\ in_paths = <<>>
    /\ resolution = None
    /\ images = <<>>
    /\ nrows = 0
    /\ ncols = 0
    /\ widths = <<>>
    /\ heights = <<>>
    /\ width = 0
    /\ height = 0
    /\ combined_img = NoImage
    /\ row = 0
    /\ col = 0
    /\ exc = ""
    /\ o_fn = "none"
    /\ o_arg = OptNone
    /\ o_default = OptNone
    /\ o_result = NotApplied
    /\ o_again = NotApplied
    /\ o_calls = 0
    /\ timer = NoTimer
    /\ now = 0
    /\ t_op = "none"
    /\ t_arg = 0
    /\ t_info = NoInfo
    /\ t_by_add = 0
    /\ t_by_tock = 0
    /\ l_fn = "none"
    /\ l_arg = <<>>
    /\ l_result = NotCalled
    /\ l_again = NotCalled
    /\ l_anchor = ""

----------------------------------------------------------------------------
(* image_tile, lines 233-276, one action per block of statements.           *)
(* danpy/image_tile.py lines 39-80 are the same statements, with Image.open *)
(* in place of to_image and combined_img.save(out_path) in place of the     *)
(* return.                                                                  *)

\* ncols = max(ncols, len(images_row)) over the rows
RECURSIVE LongestRow(_, _)
LongestRow(rows, n) ==
    IF Len(rows) = 0 THEN n ELSE LongestRow(Tail(rows), Max(n, Len(Head(rows))))

\* A slip in the update: ws[col] = images[row][col].width, the last row wins.
RECURSIVE WidthsOfRow_last(_, _, _)
WidthsOfRow_last(ws, imgrow, c) ==
    IF c > Len(imgrow) THEN ws
    ELSE WidthsOfRow_last([ws EXCEPT ![c] = imgrow[c].width], imgrow, c + 1)

\* for col in range(len(in_paths[row])): ws[col] = max(ws[col], images[row][col].width)
RECURSIVE WidthsOfRow(_, _, _)
WidthsOfRow(ws, imgrow, c) ==
    IF c > Len(imgrow) THEN ws
    ELSE WidthsOfRow([ws EXCEPT ![c] = Max(ws[c], imgrow[c].width)], imgrow, c + 1)

RECURSIVE WidthsLoop(_, _, _)
WidthsLoop(ws, imgs, r) ==
    IF r > Len(imgs) THEN ws
    ELSE WidthsLoop(WidthsOfRow(ws, imgs[r], 1), imgs, r + 1)

\* A slip in the update: heights[row] = images[row][col].height, the last wins.
RECURSIVE HeightOfRow_last(_, _, _)
HeightOfRow_last(h, imgrow, c) ==
    IF c > Len(imgrow) THEN h
    ELSE HeightOfRow_last(imgrow[c].height, imgrow, c + 1)

\* for col in range(len(in_paths[row])): h = max(h, images[row][col].height)
RECURSIVE HeightOfRow(_, _, _)
HeightOfRow(h, imgrow, c) ==
    IF c > Len(imgrow) THEN h
    ELSE HeightOfRow(Max(h, imgrow[c].height), imgrow, c + 1)

\* The first cell at or after (r, c), in row-major order, that holds an image;
\* <<nrows, 0>> when the loops are over.  r and c are 0-based.
RECURSIVE NextCell(_, _, _)
NextCell(imgs, r, c) ==
    IF r >= Len(imgs) THEN <<Len(imgs), 0>>
    ELSE IF c < Len(imgs[r + 1]) THEN <<r, c>>
    ELSE NextCell(imgs, r + 1, 0)

\* The cells (1-based <<r, c>>) of a ragged grid, and their row-major order.
CellsOf(grid) ==
    {rc \in (1..Len(grid)) \X (1..LongestRow(grid, 0)) : rc[2] <= Len(grid[rc[1]])}

Before(a, b) == a[1] < b[1] \/ (a[1] = b[1] /\ a[2] < b[2])

\* to_image over the grid, and the first cell, in loop order, where it raises.
Loaded(grid) ==
    [r \in 1..Len(grid) |-> [c \in 1..Len(grid[r]) |-> to_image(grid[r][c])]]

LoadFailures(grid) == {rc \in CellsOf(grid) : Loaded(grid)[rc[1]][rc[2]].kind = "raise"}

FirstFailure(grid) ==
    CHOOSE rc \in LoadFailures(grid) : \A o \in LoadFailures(grid) : ~Before(o, rc)

\* A slip in the loop: a source that fails to load is skipped (try / continue).
LoadImages_skip_failed ==
    /\ pc = "load"
    /\ nrows' = Len(in_paths)
    /\ images' = [r \in 1..Len(in_paths) |->
                    SelectSeq(Loaded(in_paths)[r], LAMBDA i : i.kind # "raise")]
    /\ ncols' = LongestRow(images', 0)
    /\ pc' = "widths"
    /\ UNCHANGED <<gridVars, optVars, timerVars, locVars, autoVars, callVars, sizeVars, combined_img, row, col, exc>>

\* Lines 234-243: load every source, count the columns.  The first source
\* that to_image cannot load raises out of the loop and out of image_tile.
LoadImages ==
    /\ pc = "load"
    /\ IF LoadFailures(in_paths) = {}
       THEN /\ nrows' = Len(in_paths)
            /\ images' = Loaded(in_paths)
            /\ ncols' = LongestRow(in_paths, 0)
            /\ pc' = "widths"
            /\ exc' = exc
       ELSE LET rc == FirstFailure(in_paths)
            IN  /\ nrows' = Len(in_paths)
                /\ exc' = Loaded(in_paths)[rc[1]][rc[2]].exc
                /\ pc' = "raise"
                /\ UNCHANGED <<images, ncols>>
    /\ UNCHANGED <<gridVars, optVars, timerVars, locVars, autoVars, callVars, sizeVars, combined_img, row, col>>

\* Lines 246-250: the maximum width of each column.
CalcWidths ==
    /\ pc = "widths"
    /\ widths' = WidthsLoop([c \in 1..ncols |-> 0], images, 1)
    /\ pc' = "heights"
    /\ UNCHANGED <<gridVars, optVars, timerVars, locVars, autoVars, callVars, loadVars, heights, width, height,
                   combined_img, row, col, exc>>

\* Lines 253-261: the maximum height of each row, then the two sums.
CalcHeights ==
    /\ pc = "heights"
    /\ heights' = [r \in 1..nrows |-> HeightOfRow(0, images[r], 1)]
    /\ width' = SumSeq(widths)
    /\ height' = SumSeq(heights')
    /\ pc' = "new"
    /\ UNCHANGED <<gridVars, optVars, timerVars, locVars, autoVars, callVars, loadVars, widths, combined_img,
                   row, col, exc>>

\* A slip in the call: Image.new("RGB", (width, height)), PIL's default black.
NewCanvas_black ==
    /\ pc = "new"
    /\ combined_img' = NewImage(width, height, "black")
    /\ LET first == NextCell(images, 0, 0)
       IN  /\ row' = first[1]
           /\ col' = first[2]
           /\ pc' = IF first[1] < nrows THEN "paste" ELSE "resize"
    /\ UNCHANGED <<gridVars, optVars, timerVars, locVars, autoVars, callVars, loadVars, sizeVars, exc>>

\* A slip in the call: Image.new("RGB", (height, width), background).
NewCanvas_swapped ==
    /\ pc = "new"
    /\ combined_img' = NewImage(height, width, background)
    /\ LET first == NextCell(images, 0, 0)
       IN  /\ row' = first[1]
           /\ col' = first[2]
           /\ pc' = IF first[1] < nrows THEN "paste" ELSE "resize"
    /\ UNCHANGED <<gridVars, optVars, timerVars, locVars, autoVars, callVars, loadVars, sizeVars, exc>>

\* Line 264: the canvas, filled with the background colour.
NewCanvas ==
    /\ pc = "new"
    /\ combined_img' = NewImage(width, height, background)
    /\ LET first == NextCell(images, 0, 0)
       IN  /\ row' = first[1]
           /\ col' = first[2]
           /\ pc' = IF first[1] < nrows THEN "paste" ELSE "resize"
    /\ UNCHANGED <<gridVars, optVars, timerVars, locVars, autoVars, callVars, loadVars, sizeVars, exc>>

\* A slip in the offset: x = sum(widths[:col + 1]).
Paste_next_column ==
    /\ pc = "paste"
    /\ LET img  == images[row + 1][col + 1]
           x    == SumSeq(Prefix(widths, col + 1))
           y    == SumSeq(Prefix(heights, row))
           next == NextCell(images, row, col + 1)
       IN  IF Decodes(img)
           THEN /\ combined_img' = PasteAt(combined_img, img, x, y)
                /\ row' = next[1]
                /\ col' = next[2]
                /\ pc' = IF next[1] < nrows THEN "paste" ELSE "resize"
                /\ exc' = exc
           ELSE /\ exc' = "OSError"
                /\ pc' = "raise"
                /\ UNCHANGED <<combined_img, row, col>>
    /\ UNCHANGED <<gridVars, optVars, timerVars, locVars, autoVars, callVars, loadVars, sizeVars>>

\* Lines 266-270, one iteration of the inner loop: paste images[row][col] at
\* (sum(widths[:col]), sum(heights[:row])) and move to the next image.  paste
\* decodes its source first, and an image that does not decode raises.
Paste ==
    /\ pc = "paste"
    /\ LET img  == images[row + 1][col + 1]
           x    == SumSeq(Prefix(widths, col))
           y    == SumSeq(Prefix(heights, row))
           next == NextCell(images, row, col + 1)
       IN  IF Decodes(img)
           THEN /\ combined_img' = PasteAt(combined_img, img, x, y)
                /\ row' = next[1]
                /\ col' = next[2]
                /\ pc' = IF next[1] < nrows THEN "paste" ELSE "resize"
                /\ exc' = exc
           ELSE /\ exc' = "OSError"
                /\ pc' = "raise"
                /\ UNCHANGED <<combined_img, row, col>>
    /\ UNCHANGED <<gridVars, optVars, timerVars, locVars, autoVars, callVars, loadVars, sizeVars>>

\* A slip in the test: the resolution is ignored.
Resize_skipped ==
    /\ pc = "resize"
    /\ combined_img' = combined_img
    /\ pc' = "return"
    /\ UNCHANGED <<gridVars, optVars, timerVars, locVars, autoVars, callVars, loadVars, sizeVars, row, col, exc>>

\* Lines 273-274: resize the composed canvas when a resolution was given.
Resize ==
    /\ pc = "resize"
    /\ combined_img' = IF resolution # None
                       THEN ResizeTo(combined_img, resolution)
                       ELSE combined_img
    /\ pc' = "return"
    /\ UNCHANGED <<gridVars, optVars, timerVars, locVars, autoVars, callVars, loadVars, sizeVars, row, col, exc>>

\* The locals of a call that has ended.
DropLocals ==
    /\ pc' = "idle"
    /\ caller' = "none"
    /\ paths' = <<>>
    /\ layout_arg' = None
    /\ layout' = None
    /\ in_paths' = <<>>
    /\ resolution' = None
    /\ images' = <<>>
    /\ nrows' = 0
    /\ ncols' = 0
    /\ widths' = <<>>
    /\ heights' = <<>>
    /\ width' = 0
    /\ height' = 0
    /\ combined_img' = NoImage
    /\ row' = 0
    /\ col' = 0
    /\ exc' = ""
    /\ UNCHANGED <<gridVars, optVars, timerVars, locVars>>

\* Line 276 (and line 312 for image_tile_auto): the canvas goes to the caller.
Return ==
    /\ pc = "return"
    /\ DropLocals

\* No try / except anywhere in image_tile or image_tile_auto: the exception
\* leaves the call, the canvas (if one was created) is dropped with the locals.
Propagate ==
    /\ pc = "raise"
    /\ DropLocals

----------------------------------------------------------------------------
(* The calls.                                                              *)

ImageSizes == Dims \X Dims

Resolutions == {None} \cup ((1..MaxRes) \X (1..MaxRes))

\* The row lengths of the ragged grids: at most MaxRows rows, empty rows
\* included, holding at most MaxCells images in all.
Shapes ==
    {sh \in UNION {[1..n -> 0..MaxCells] : n \in 0..MaxRows} : SumSeq(sh) <= MaxCells}

\* The grid of shape sh whose k-th image, in row-major order, has size sizes[k].
GridOf(sh, sizes) ==
    [r \in 1..Len(sh) |->
        [c \in 1..sh[r] |->
            LET k == SumSeq(Prefix(sh, r - 1)) + c
            IN  Source(k, sizes[k][1], sizes[k][2])]]

\* image_tile(in_paths, resolution) called directly.
CallImageTile ==
    /\ pc = "idle"
    /\ \E sh \in Shapes, res \in Resolutions :
         \E sizes \in [1..SumSeq(sh) -> ImageSizes] :
            /\ in_paths' = GridOf(sh, sizes)
            /\ resolution' = res
    /\ caller' = "image_tile"
    /\ pc' = "load"
    /\ UNCHANGED <<gridVars, optVars, timerVars, locVars, autoVars, loadVars, sizeVars, combined_img, row, col, exc>>

\* The k-th item of a flat list: the sizes cycle through ImageSizes.
Item(k) == Source(k, 1 + (k % 2), 1 + ((k \div 2) % 2))

\* The sources that make a call fail: a path that cannot be opened, a value of
\* an unsupported type, a path to a file that opens and does not decode.
Faults == {"unreadable", "other", "truncated"}

FaultySource(f, k) ==
    IF f = "unreadable" THEN PathTo(Unreadable)
    ELSE IF f = "other" THEN OtherValue
    ELSE PathTo(TruncatedFile(k, 1 + (k % 2), 1 + ((k \div 2) % 2)))

\* Item(j) for every j but bad, the faulty source f at position bad.
ItemOrFault(j, bad, f) == IF j = bad THEN FaultySource(f, j) ELSE Item(j)

\* image_tile called directly on a grid that holds one faulty source.
CallImageTileFaulty ==
    /\ pc = "idle"
    /\ \E sh \in Shapes, res \in Resolutions, f \in Faults :
         \E bad \in 1..SumSeq(sh) :
            /\ in_paths' = [r \in 1..Len(sh) |->
                              [c \in 1..sh[r] |->
                                  ItemOrFault(SumSeq(Prefix(sh, r - 1)) + c, bad, f)]]
            /\ resolution' = res
    /\ caller' = "image_tile"
    /\ pc' = "load"
    /\ UNCHANGED <<gridVars, optVars, timerVars, locVars, autoVars, loadVars, sizeVars, combined_img, row, col, exc>>

Layouts == {None} \cup ((0..MaxLayout) \X (0..MaxLayout))

\* Lines 306-309: for _col in range(ncol): append paths[idx] if idx < len(paths);
\* idx += 1 either way.  idx is 0-based.
RECURSIVE RowLoop(_, _, _, _)
RowLoop(items, idx, ncol, paths_row) ==
    IF ncol <= 0 THEN paths_row
    ELSE RowLoop(items, idx + 1, ncol - 1,
                 IF idx < Len(items) THEN Append(paths_row, items[idx + 1])
                 ELSE paths_row)

\* Lines 304-310: for _row in range(nrow): build a row, append it to paths_.
RECURSIVE GridLoop(_, _, _, _, _)
GridLoop(items, idx, nrow, ncol, paths_) ==
    IF nrow <= 0 THEN paths_
    ELSE GridLoop(items, idx + Max(ncol, 0), nrow - 1, ncol,
                  Append(paths_, RowLoop(items, idx, ncol, <<>>)))

\* A slip in the guard: `if idx < len(paths) - 1` leaves the last item out.
BuildGrid_short(items, lay) ==
    GridLoop(SubSeq(items, 1, Len(items) - 1), 0, lay[1], lay[2], <<>>)

\* A slip in the loops: range(layout[1]) rows of range(layout[0]) columns.
BuildGrid_transposed(items, lay) == GridLoop(items, 0, lay[2], lay[1], <<>>)

\* Lines 302-310: the grid paths_ built from the flat list.
BuildGrid(items, lay) == GridLoop(items, 0, lay[1], lay[2], <<>>)

\* image_tile_auto(paths, layout, resolution), lines 300-316, up to the call
\* of image_tile.
CallImageTileAuto ==
    /\ pc = "idle"
    /\ \E n \in 0..MaxItems, lay \in Layouts, res \in Resolutions, f \in Faults :
         \E bad \in 0..n :
            LET items == [k \in 1..n |-> ItemOrFault(k, bad, f)]
                lay2  == IF lay # None THEN lay ELSE grid_layout_2d(n)
            IN  /\ paths' = items
                /\ layout_arg' = lay
                /\ layout' = lay2
                /\ in_paths' = BuildGrid(items, lay2)
                /\ resolution' = res
    /\ caller' = "image_tile_auto"
    /\ pc' = "load"
    /\ UNCHANGED <<gridVars, optVars, timerVars, locVars, loadVars, sizeVars, combined_img, row, col, exc>>

NextTile ==
    \/ CallImageTile
    \/ CallImageTileFaulty
    \/ CallImageTileAuto
    \/ LoadImages
    \/ CalcWidths
    \/ CalcHeights
    \/ NewCanvas
    \/ Paste
    \/ Resize
    \/ Return
    \/ Propagate

SpecTile == Init /\ [][NextTile]_vars

----------------------------------------------------------------------------
(* SpecGrid: the grid layout solver applied to every count 0..MaxCount.     *)

Counts == 0..MaxCount

CallGridLayout2d ==
    \E n \in Counts :
        /\ fn' = "grid_layout_2d"
        /\ count' = n
        /\ result' = grid_layout_2d(n)
        /\ UNCHANGED <<tileVars, autoVars, optVars, timerVars, locVars>>

CallGridLayout3d ==
    \E n \in Counts :
        /\ fn' = "grid_layout_3d"
        /\ count' = n
        /\ result' = grid_layout_3d(n)
        /\ UNCHANGED <<tileVars, autoVars, optVars, timerVars, locVars>>

NextGrid == CallGridLayout2d \/ CallGridLayout3d

SpecGrid == Init /\ [][NextGrid]_vars

\* The divisors d of n with 2 <= d and d * d <= n.
SquareDivisors(n) == {d \in 2..n : d * d <= n /\ n % d = 0}

\* The divisors d of n with 2 <= d and d * d * d <= n.
CubeDivisors(n) == {d \in 2..n : d * d * d <= n /\ n % d = 0}

\* The largest element of a non-empty finite set of integers, 1 for the empty set.
LargestOr1(S) == IF S = {} THEN 1 ELSE CHOOSE d \in S : \A e \in S : e <= d

\* C1: for every count >= 1, grid_layout_2d(count) is a pair (rows, cols) of
\* positive integers with rows * cols = count and rows <= cols.
C1_Layout2dProduct ==
    (fn = "grid_layout_2d" /\ count >= 1) =>
        /\ Len(result) = 2
        /\ result[1] >= 1 /\ result[2] >= 1
        /\ result[1] * result[2] = count
        /\ result[1] <= result[2]

\* A composite count has been laid out with more than one row.
C1_Witness == fn = "grid_layout_2d" /\ count = 12 /\ result[1] > 1

\* C2: for every count >= 1, rows is the largest d in [2, floor(sqrt(count))]
\* dividing count, or 1 when there is none, and cols is count / rows.
C2_Layout2dLargestDivisor ==
    (fn = "grid_layout_2d" /\ count >= 1) =>
        /\ result[1] = LargestOr1(SquareDivisors(count))
        /\ result[2] = count \div result[1]

\* 12 has the two candidates 2 and 3 and the larger one was taken.
C2_Witness == fn = "grid_layout_2d" /\ count = 12 /\ result = <<3, 4>>

\* C3: for every count >= 1, grid_layout_3d(count) is a triple of positive
\* integers with depth * rows * cols = count.
C3_Layout3dProduct ==
    (fn = "grid_layout_3d" /\ count >= 1) =>
        /\ Len(result) = 3
        /\ result[1] >= 1 /\ result[2] >= 1 /\ result[3] >= 1
        /\ result[1] * result[2] * result[3] = count

\* A count with a depth above 1 and a remainder that splits in two.
C3_Witness == fn = "grid_layout_3d" /\ count = 48 /\ result[1] > 1 /\ result[2] > 1

\* C4: for every count >= 1, perfect cubes included, depth is the largest d in
\* [2, floor(count^(1/3))] dividing count, or 1 when there is none, and
\* (rows, cols) is grid_layout_2d(count / depth).
C4_Layout3dLargestDivisor ==
    (fn = "grid_layout_3d" /\ count >= 1) =>
        LET d == LargestOr1(CubeDivisors(count))
        IN  /\ result[1] = d
            /\ <<result[2], result[3]>> = grid_layout_2d(count \div d)

----------------------------------------------------------------------------
(* The tiling the claims describe, stated from the loaded images alone.     *)

\* The largest element of a finite set of naturals, 0 for the empty set.
SetMax(S) == IF S = {} THEN 0 ELSE CHOOSE m \in S : \A e \in S : e <= m

\* The rows (1-based) that have an image at column c (1-based).
RowsWith(c) == {r \in 1..Len(images) : Len(images[r]) >= c}

NumCols == SetMax({Len(images[r]) : r \in 1..Len(images)})

ColWidth(c) == SetMax({images[r][c].width : r \in RowsWith(c)})

RowHeight(r) == SetMax({images[r][c].height : c \in 1..Len(images[r])})

\* Left edge of column c and top edge of row r (1-based).
ColLeft(c) == SumSeq([k \in 1..(c - 1) |-> ColWidth(k)])

RowTop(r) == SumSeq([k \in 1..(r - 1) |-> RowHeight(k)])

NaturalSize == <<ColLeft(NumCols + 1), RowTop(Len(images) + 1)>>

\* The cells (1-based <<r, c>>) that hold an image.
Cells == {rc \in (1..Len(images)) \X (1..NumCols) : rc[2] <= Len(images[rc[1]])}

\* Pixel p of the canvas lies under the image of cell rc placed at its offset.
Covers(rc, p) ==
    LET img == images[rc[1]][rc[2]]
    IN  /\ ColLeft(rc[2]) <= p[1] /\ p[1] < ColLeft(rc[2]) + img.width
        /\ RowTop(rc[1]) <= p[2] /\ p[2] < RowTop(rc[1]) + img.height

\* The pixel of the image of cell rc that lands on pixel p of the canvas.
ImagePixel(rc, p) ==
    PixelOf(images[rc[1]][rc[2]].id, p[1] - ColLeft(rc[2]), p[2] - RowTop(rc[1]))

Rect(size) == (0..(size[1] - 1)) \X (0..(size[2] - 1))

Measured == pc \in {"paste", "resize", "return"}

\* C5: without a resolution, the number of columns is the length of the
\* longest row, the width of column c is the maximum width over the rows that
\* have an image at c, the height of row r is the maximum height over its
\* images, and the canvas is (sum of column widths) x (sum of row heights).
C5_MaxPerLine ==
    (Measured /\ resolution = None) =>
        /\ ncols = NumCols
        /\ Len(widths) = NumCols
        /\ \A c \in 1..NumCols : widths[c] = ColWidth(c)
        /\ Len(heights) = Len(images)
        /\ \A r \in 1..Len(images) : heights[r] = RowHeight(r)
        /\ combined_img.size = <<SumSeq(widths), SumSeq(heights)>>
        /\ combined_img.size = NaturalSize

\* A ragged grid: the short second row sets the width of column 1 and has
\* nothing to say about column 2.
C5_Witness ==
    /\ pc = "return" /\ resolution = None
    /\ Len(images) = 2 /\ Len(images[1]) = 2 /\ Len(images[2]) = 1
    /\ images[1][1].width = 1 /\ images[2][1].width = 2
    /\ widths = <<2, images[1][2].width>>

\* C6: the image at row r, column c is pasted at native size with its top-left
\* corner at (sum of the widths of the columns before c, sum of the heights of
\* the rows before r): the step changes exactly the pixels of that box, to the
\* image's own pixels, and all of the image fits.
C6_PasteAtOffsets ==
    [][(pc = "paste" /\ pc' # "raise") =>
        LET rc  == <<row + 1, col + 1>>
            img == images[rc[1]][rc[2]]
        IN  /\ combined_img'.size = combined_img.size
            /\ DOMAIN combined_img'.px = DOMAIN combined_img.px
            /\ \A p \in DOMAIN combined_img.px :
                  combined_img'.px[p] =
                      IF Covers(rc, p) THEN ImagePixel(rc, p) ELSE combined_img.px[p]
            /\ \A q \in Rect(<<img.width, img.height>>) :
                  LET p == <<ColLeft(rc[2]) + q[1], RowTop(rc[1]) + q[2]>>
                  IN  /\ p \in DOMAIN combined_img.px
                      /\ combined_img'.px[p] = PixelOf(img.id, q[1], q[2])
      ]_vars

\* The image of row 1, column 1 (0-based) sits at (widths[0], heights[0]).
C6_Witness ==
    /\ pc = "resize"
    /\ Len(images) = 2 /\ Len(images[2]) = 2
    /\ combined_img.px[<<widths[1], heights[1]>>] = PixelOf(images[2][2].id, 0, 0)

\* C7: without a resolution, every pixel of the returned canvas that no pasted
\* image covers has the background colour and every pixel an image covers has
\* that image's pixel.
C7_BackgroundElsewhere ==
    (pc = "return" /\ resolution = None) =>
        /\ DOMAIN combined_img.px = Rect(NaturalSize)
        /\ \A p \in DOMAIN combined_img.px :
              LET over == {rc \in Cells : Covers(rc, p)}
              IN  IF over = {} THEN combined_img.px[p] = Fill(background)
                  ELSE \A rc \in over : combined_img.px[p] = ImagePixel(rc, p)

\* Row 0 has two images, row 1 one narrow image: background fills the gap to
\* its right and the missing cell after it.
C7_Witness ==
    /\ pc = "return" /\ resolution = None
    /\ Len(images) = 2 /\ Len(images[1]) = 2 /\ Len(images[2]) = 1
    /\ images[1][1].width = 2 /\ images[2][1].width = 1
    /\ combined_img.px[<<1, heights[1]>>] = Fill(background)
    /\ combined_img.px[<<2, heights[1]>>] = Fill(background)
    /\ combined_img.px[<<0, heights[1]>>] = PixelOf(images[2][1].id, 0, 0)

\* C8: with a resolution (W, H) the returned canvas is exactly W x H whatever
\* the natural size, without one it is (sum of column widths, sum of row
\* heights); the canvas changes size in one step only, the resize, taken after
\* the last paste and followed by the return.
C8_ResolutionOverride ==
    /\ [](pc = "return" =>
            combined_img.size = IF resolution # None THEN resolution ELSE NaturalSize)
    /\ [][(combined_img # NoImage /\ combined_img' # NoImage
              /\ combined_img'.size # combined_img.size)
            => (pc = "resize" /\ row = nrows /\ pc' = "return")]_vars
    /\ [][pc = "return" => pc' = "idle"]_vars

\* A canvas of natural size 2 x 2 or more returned at 1 x 1.
C8_Witness ==
    /\ pc = "return" /\ resolution = <<1, 1>>
    /\ width >= 2 /\ height >= 2
    /\ combined_img.size = <<1, 1>>

\* C9: tiling a 1x1 grid holding one image of size (W, H) without a resolution
\* yields a canvas of size (W, H) whose every pixel is the input's.
C9_SingleImageIdentity ==
    (pc = "return" /\ resolution = None /\ Len(images) = 1 /\ Len(images[1]) = 1) =>
        LET img == images[1][1]
        IN  /\ combined_img.size = <<img.width, img.height>>
            /\ DOMAIN combined_img.px = Rect(<<img.width, img.height>>)
            /\ \A p \in Rect(<<img.width, img.height>>) :
                  combined_img.px[p] = PixelOf(img.id, p[1], p[2])

\* A single 2 x 1 image, given as a path, came back as the canvas.
C9_Witness ==
    /\ pc = "return" /\ resolution = None
    /\ Len(in_paths) = 1 /\ Len(in_paths[1]) = 1 /\ in_paths[1][1].kind = "path"
    /\ combined_img.size = <<2, 1>>
    /\ combined_img.px[<<1, 0>>] = PixelOf(in_paths[1][1].file.id, 1, 0)

\* C10: image_tile_auto with n >= 1 items and no layout hands image_tile a grid
\* of exactly rows rows of exactly cols items each, (rows, cols) being
\* grid_layout_2d(n).
C10_AutoGridShape ==
    (caller = "image_tile_auto" /\ layout_arg = None /\ Len(paths) >= 1) =>
        LET g == grid_layout_2d(Len(paths))
        IN  /\ layout = g
            /\ Len(in_paths) = g[1]
            /\ \A r \in 1..Len(in_paths) : Len(in_paths[r]) = g[2]

\* Four items laid out as two full rows of two.
C10_Witness ==
    /\ caller = "image_tile_auto" /\ layout_arg = None /\ Len(paths) = 4
    /\ pc = "load"
    /\ Len(in_paths) = 2 /\ Len(in_paths[1]) = 2 /\ Len(in_paths[2]) = 2

----------------------------------------------------------------------------
(* image_tile_auto with an explicit layout, and the failing calls.          *)

Min(a, b) == IF a <= b THEN a ELSE b

\* The rows of a ragged grid, one after the other.
RECURSIVE Flatten(_)
Flatten(grid) == IF Len(grid) = 0 THEN <<>> ELSE Head(grid) \o Flatten(Tail(grid))

ExplicitLayout == caller = "image_tile_auto" /\ layout_arg # None

\* C11: with an explicit layout (rows, cols) and rows * cols >= len(items), the
\* grid has exactly rows rows of at most cols items, the rows concatenated are
\* items, item k sits at row k div cols, column k mod cols, and the rows after
\* the last item are short or empty.
C11_ExplicitLayoutRowMajor ==
    (ExplicitLayout /\ layout_arg[1] * layout_arg[2] >= Len(paths)) =>
        LET rows == layout_arg[1]
            cols == layout_arg[2]
            n    == Len(paths)
        IN  /\ Len(in_paths) = rows
            /\ \A r \in 1..rows :
                  Len(in_paths[r]) = Min(cols, Max(0, n - (r - 1) * cols))
            /\ Flatten(in_paths) = paths
            /\ \A k \in 0..(n - 1) :
                  in_paths[(k \div cols) + 1][(k % cols) + 1] = paths[k + 1]

\* Three items in a 2 x 2 layout: a full row, then a short one.
C11_Witness ==
    /\ ExplicitLayout /\ layout_arg = <<2, 2>> /\ Len(paths) = 3
    /\ Len(in_paths) = 2 /\ Len(in_paths[1]) = 2 /\ Len(in_paths[2]) = 1
    /\ in_paths[2][1] = paths[3]

\* C12: image_tile_auto with a layout (r, c), r * c < len(items), fails
\* (InvalidArgument) and produces no canvas; it never drops items silently.
C12_TooSmallLayoutFails ==
    (ExplicitLayout /\ layout_arg[1] * layout_arg[2] < Len(paths)) =>
        /\ combined_img = NoImage
        /\ pc # "return"

\* C13: image_tile fails (InvalidArgument) on a grid of zero rows instead of
\* returning a canvas.
C13_EmptyGridFails ==
    (pc # "idle" /\ Len(in_paths) = 0) =>
        /\ combined_img = NoImage
        /\ pc # "return"

\* What is wrong with a source: "none" for a path to an image and for an image.
FaultOf(src) ==
    IF src.kind = "other" THEN "other"
    ELSE IF src.kind = "path" /\ src.file.kind = "unreadable" THEN "unreadable"
    ELSE IF src.kind = "path" /\ src.file.kind = "truncated" THEN "truncated"
    ELSE "none"

GridFaults == {FaultOf(in_paths[rc[1]][rc[2]]) : rc \in CellsOf(in_paths)} \ {"none"}

\* C14 as stated: a source of the grid that fails to load means that no canvas
\* is created or returned.
C14_NoCanvasCreatedOnFailure ==
    GridFaults # {} => (combined_img = NoImage /\ pc # "return")

\* C14 as amended: a source of the grid that fails to load means that no
\* canvas is returned (or saved) and the call ends raising; a source that
\* cannot be opened or has an unsupported type fails in the load loop, before
\* the canvas is created; only a call on such a grid raises.
C14_NoCanvasReturnedOnFailure ==
    /\ GridFaults # {} => pc \in {"load", "widths", "heights", "new", "paste", "raise"}
    /\ (GridFaults \cap {"unreadable", "other"}) # {} =>
          (pc \in {"load", "raise"} /\ combined_img = NoImage)
    /\ pc = "raise" => (exc # "" /\ GridFaults # {})
    /\ pc # "raise" => exc = ""

\* A file that opened and did not decode: the call raises at its paste, after
\* the canvas was created and the image before it was pasted.
C14_Witness ==
    /\ pc = "raise" /\ exc = "OSError"
    /\ combined_img # NoImage
    /\ row = 0 /\ col = 1
    /\ combined_img.px[<<0, 0>>] = PixelOf(images[1][1].id, 0, 0)

Loading == pc \in {"widths", "heights", "new", "paste", "resize", "return"}

\* C15: to_image opens a path, returns an already-loaded image as the same
\* object and raises TypeError for a value of any other type, and image_tile
\* applies it to every cell of the grid.
C15_ToImageThreeWays ==
    /\ Loading =>
          /\ Len(images) = Len(in_paths)
          /\ \A r \in 1..Len(in_paths) :
                /\ Len(images[r]) = Len(in_paths[r])
                /\ \A c \in 1..Len(in_paths[r]) :
                      LET src == in_paths[r][c]
                      IN  /\ src.kind \in {"path", "image"}
                          /\ src.kind = "path" => images[r][c] = src.file
                          /\ src.kind = "image" => images[r][c] = src
    /\ "other" \in GridFaults =>
          /\ pc \in {"load", "raise"}
          /\ pc = "raise" => exc = "TypeError"
    /\ (pc = "raise" /\ exc = "TypeError") => "other" \in GridFaults

\* The second source of the row is neither a path nor an image.
C15_Witness ==
    /\ pc = "raise" /\ exc = "TypeError"
    /\ Len(in_paths) = 1 /\ Len(in_paths[1]) = 2
    /\ in_paths[1][1].kind = "path" /\ in_paths[1][2].kind = "other"

\* The box the code pastes the image of cell rc (1-based) into.
PasteX(rc) == SumSeq(Prefix(widths, rc[2] - 1))

PasteY(rc) == SumSeq(Prefix(heights, rc[1] - 1))

BoxOf(rc) ==
    LET img == images[rc[1]][rc[2]]
    IN  (PasteX(rc)..(PasteX(rc) + img.width - 1)) \X (PasteY(rc)..(PasteY(rc) + img.height - 1))

\* C19: every pasted image lies inside the canvas and inside its own cell, no
\* two pasted images overlap, and no pixel of an image pasted earlier is
\* cropped or overwritten by a later paste.
C19_PastesDisjoint ==
    pc \in {"paste", "resize"} =>
        /\ \A rc \in Cells :
              LET img == images[rc[1]][rc[2]]
              IN  /\ PasteX(rc) + img.width <= SumSeq(Prefix(widths, rc[2]))
                  /\ PasteY(rc) + img.height <= SumSeq(Prefix(heights, rc[1]))
                  /\ BoxOf(rc) \subseteq DOMAIN combined_img.px
        /\ \A a \in Cells : \A b \in Cells : a # b => BoxOf(a) \cap BoxOf(b) = {}
        /\ \A rc \in Cells :
              Before(rc, <<row + 1, col + 1>>) =>
                  \A p \in BoxOf(rc) :
                      combined_img.px[p] =
                          PixelOf(images[rc[1]][rc[2]].id, p[1] - PasteX(rc), p[2] - PasteY(rc))

\* Three images of different heights, all pasted, all intact.
C19_Witness ==
    /\ pc = "resize"
    /\ Len(images) = 2 /\ Len(images[1]) = 2 /\ Len(images[2]) = 1
    /\ images[1][1].height = 1 /\ images[1][2].height = 2
    /\ images[2][1].width = 2 /\ images[1][1].width = 1
    /\ combined_img.px[<<0, 0>>] = PixelOf(images[1][1].id, 0, 0)
    /\ combined_img.px[<<1, 2>>] = PixelOf(images[2][1].id, 1, 0)

----------------------------------------------------------------------------
(* Calls of danpy/option.py on every Option-like value of the bounded       *)
(* family.                                                                 *)

CallToOpt ==
    \E x \in Option :
        /\ o_fn' = "to_opt"
        /\ o_arg' = x
        /\ o_default' = OptNone
        /\ o_result' = to_opt(x)
        /\ o_again' = to_opt(to_opt(x))
        /\ o_calls' = 0
        /\ UNCHANGED <<gridVars, autoVars, tileVars, timerVars, locVars>>

CallUnwrap ==
    \E x \in Option :
        /\ o_fn' = "unwrap"
        /\ o_arg' = x
        /\ o_default' = OptNone
        /\ o_result' = unwrap(x)
        \* unwrap(unwrap(x)): an exception of the inner call leaves the expression
        /\ o_again' = IF unwrap(x).tag = "raise" THEN unwrap(x)
                      ELSE unwrap(unwrap(x))
        /\ o_calls' = 0
        /\ UNCHANGED <<gridVars, autoVars, tileVars, timerVars, locVars>>

CallOrDefault ==
    \E x \in Option, d \in Option :
        /\ o_fn' = "or_default"
        /\ o_arg' = x
        /\ o_default' = d
        /\ o_result' = or_default(x, d)
        /\ o_again' = NotApplied
        /\ o_calls' = 0
        /\ UNCHANGED <<gridVars, autoVars, tileVars, timerVars, locVars>>

CallOrGetDefault ==
    \E x \in Option, d \in Option :
        /\ o_fn' = "or_get_default"
        /\ o_arg' = x
        /\ o_default' = d
        /\ o_result' = or_get_default(x, d).ret
        /\ o_again' = NotApplied
        /\ o_calls' = or_get_default(x, d).calls
        /\ UNCHANGED <<gridVars, autoVars, tileVars, timerVars, locVars>>

NextOption == CallToOpt \/ CallUnwrap \/ CallOrDefault \/ CallOrGetDefault

SpecOption == Init /\ [][NextOption]_vars

----------------------------------------------------------------------------
(* A PerfTimer of danpy/logging.py under any sequence of calls, while the   *)
(* clock runs.                                                             *)

\* datetime.datetime.now() moves on between two calls.
ClockRuns ==
    /\ now < MaxClock
    /\ now' = now + 1
    /\ UNCHANGED <<timer, t_op, t_arg, t_info, t_by_add, t_by_tock>>
    /\ UNCHANGED <<gridVars, autoVars, tileVars, optVars, locVars>>

Tick ==
    /\ timer' = tick(now)
    /\ t_op' = "tick"
    /\ t_arg' = 0
    /\ t_info' = NoInfo
    /\ t_by_add' = 0
    /\ t_by_tock' = 0
    /\ UNCHANGED <<now, gridVars, autoVars, tileVars, optVars, locVars>>

AddEvent ==
    /\ t_op # "none"
    /\ timer.events + 1 <= MaxEvents
    /\ timer' = add_event(timer)
    /\ t_op' = "add_event"
    /\ t_arg' = 1
    /\ t_by_add' = t_by_add + 1
    /\ UNCHANGED <<now, t_info, t_by_tock, gridVars, autoVars, tileVars, optVars, locVars>>

AddEvents ==
    \E k \in 0..MaxAdd :
        /\ t_op # "none"
        /\ timer.events + k <= MaxEvents
        /\ timer' = add_events(timer, k)
        /\ t_op' = "add_events"
        /\ t_arg' = k
        /\ t_by_add' = t_by_add + k
        /\ UNCHANGED <<now, t_info, t_by_tock, gridVars, autoVars, tileVars, optVars, locVars>>

Tock ==
    \E k \in 0..MaxAdd :
        /\ t_op # "none"
        /\ timer.events + k <= MaxEvents
        /\ timer' = tock(timer, k, now).self
        /\ t_info' = tock(timer, k, now).info
        /\ t_op' = "tock"
        /\ t_arg' = k
        /\ t_by_tock' = t_by_tock + k
        /\ UNCHANGED <<now, t_by_add, gridVars, autoVars, tileVars, optVars, locVars>>

NextTimer == ClockRuns \/ Tick \/ AddEvent \/ AddEvents \/ Tock

SpecTimer == Init /\ [][NextTimer]_vars

----------------------------------------------------------------------------
(* Claims about danpy/option.py, checked under SpecOption.                  *)

\* C16: to_opt is idempotent and never nests: to_opt(None) is None,
\* to_opt(Some(v)) is the very same Some object, to_opt(v) for any other v is
\* a Some holding v, and to_opt(to_opt(x)) == to_opt(x) for every x.
C16_ToOptIdempotent ==
    o_fn = "to_opt" =>
        /\ o_arg.tag = "None" => o_result = OptNone
        /\ o_arg.tag = "Some" => o_result = o_arg
        /\ o_arg.tag = "raw" => (o_result.tag = "Some" /\ o_result.val = o_arg)
        /\ o_result.tag \in {"None", "Some"}
        /\ o_again = o_result
        /\ PyEq(o_again, o_result)

C16_Witness ==
    /\ o_fn = "to_opt"
    /\ o_arg = Some(Some(Raw(1), 1), 2)
    /\ o_result = o_arg
    /\ o_again = o_arg

\* C17: unwrap is idempotent: for every x other than None, a Some wrapping
\* another Some included, unwrap(unwrap(x)) == unwrap(x); unwrap(Some(v)) is
\* v, unwrap(raw) is raw, and unwrap(None) raises TypeError.
C17_UnwrapIdempotent ==
    o_fn = "unwrap" =>
        /\ o_arg.tag = "None" => o_result = OptRaises("TypeError")
        /\ o_arg.tag = "Some" => o_result = o_arg.val
        /\ o_arg.tag = "raw" => o_result = o_arg
        /\ o_arg.tag # "None" => PyEq(o_again, o_result)

\* C18: or_default(opt, d) and or_get_default(opt, lambda: d) return the same
\* result: d when opt is None, v when opt is Some(v), opt itself when it is a
\* raw value; get_default is called only when opt is None.
OrDefaultExpected(opt, d) ==
    IF opt.tag = "None" THEN d
    ELSE IF opt.tag = "Some" THEN opt.val
    ELSE opt

C18_OrDefaultAgree ==
    /\ o_fn \in {"or_default", "or_get_default"} =>
          /\ o_result = OrDefaultExpected(o_arg, o_default)
          /\ o_result = or_default(o_arg, o_default)
          /\ o_result = or_get_default(o_arg, o_default).ret
    /\ o_fn = "or_get_default" =>
          o_calls = (IF o_arg.tag = "None" THEN 1 ELSE 0)

C18_Witness ==
    /\ o_fn = "or_get_default"
    /\ o_arg = Raw(0)
    /\ o_default = Raw(1)
    /\ o_result = Raw(0)
    /\ o_calls = 0

----------------------------------------------------------------------------
(* Claims about PerfTimer, checked under SpecTimer.                         *)

\* C20: the events field of the PerfInfo a tock returns is the sum of the
\* events added by add_event / add_events so far plus the events arguments of
\* this and every earlier tock; tock stores its argument in the timer, and no
\* call but tick() changes the start time or takes events away.
C20_TockCountsAllEvents ==
    /\ [](t_op = "tock" => t_info.events = t_by_add + t_by_tock)
    /\ [](t_op # "none" => timer.events = t_by_add + t_by_tock)
    /\ [][(t_op # "none" /\ t_op' # "tick") =>
             /\ timer'.start = timer.start
             /\ timer'.events >= timer.events]_vars

C20_Witness ==
    /\ t_op = "tock"
    /\ t_arg = 1
    /\ t_by_tock = 3
    /\ t_by_add = 1
    /\ timer = PerfTimer(1, 4)
    /\ t_info = PerfInfo(4, 1)

----------------------------------------------------------------------------
(* Calls of to_canonical_absloc and label_image on every string of the      *)
(* bounded family.  The functions keep no state, so a behaviour holds one   *)
(* call.                                                                   *)

CallToCanonicalAbsloc ==
    \E s \in StringsTo(MaxTokens) :
        /\ l_fn = "none"
        /\ l_fn' = "to_canonical_absloc"
        /\ l_arg' = s
        /\ l_result' = to_canonical_absloc(s)
        \* to_canonical_absloc(to_canonical_absloc(s)): an exception of the
        \* inner call leaves the expression
        /\ l_again' = IF to_canonical_absloc(s).exc # "" THEN to_canonical_absloc(s)
                      ELSE to_canonical_absloc(to_canonical_absloc(s).val)
        /\ l_anchor' = ""
        /\ UNCHANGED <<gridVars, autoVars, tileVars, optVars, timerVars>>

\* label_image up to its anchor lookup, lines 160-173.
CallLabelImage ==
    \E s \in StringsTo(MaxTokens) :
        /\ l_fn = "none"
        /\ l_fn' = "label_image"
        /\ l_arg' = s
        /\ l_result' = to_canonical_absloc(s)
        /\ l_again' = NotCalled
        /\ l_anchor' = anchor_of(s)
        /\ UNCHANGED <<gridVars, autoVars, tileVars, optVars, timerVars>>

NextLoc == CallToCanonicalAbsloc \/ CallLabelImage

SpecLoc == Init /\ [][NextLoc]_vars

----------------------------------------------------------------------------
(* Claims about absolute locations, checked under SpecLoc.                  *)

\* The canonical form of one of the five aliases.
CanonicalOfAlias(w) ==
    IF w \in {"top", "bottom"} THEN TwoWords(w, "center")
    ELSE TwoWords("center", w)

\* The input with upper case and dashes aside.
Normalised(s) ==
    [i \in 1..Len(s) |->
        Token(IF s[i].ch = "-" THEN " " ELSE s[i].ch, FALSE)]

\* C21: for every input string to_canonical_absloc raises ValueError or
\* returns one of the nine canonical two-word locations, a key of
\* label_image's anchor and text_xy tables; the five aliases give their
\* canonical form, dashes and case are normalised, and the function is
\* idempotent.
C21_CanonicalOrValueError ==
    l_fn # "none" =>
        /\ \/ l_result = LocRaises("ValueError")
           \/ l_result.exc = "" /\ l_result.val \in CanonicalLocs
        /\ l_fn = "label_image" => l_anchor # "KeyError"
        /\ \A w \in {"top", "left", "center", "right", "bottom"} :
              Normalised(l_arg) = Word(w) =>
                  l_result = LocReturns(CanonicalOfAlias(w))
        /\ Normalised(l_arg) \in CanonicalLocs =>
              l_result = LocReturns(Normalised(l_arg))
        /\ (l_fn = "to_canonical_absloc" /\ l_result.exc = "") =>
              l_again = l_result

====
